---------------------------- MODULE Spec2Model ----------------------------
(***************************************************************************)
(* Model of tensorforce/core/distributions/bernoulli.py and beta.py.       *)
(*                                                                         *)
(* Floats are fixed-point integers in units of 1/Scale (1e-7); the IEEE    *)
(* values +inf, -inf and NaN are the integers PosInf, NegInf and NaN.      *)
(* A tensor is a record [ok, err, shape, val]: val maps every index tuple  *)
(* of shape to a float or a boolean; ok = FALSE is an exception raised by  *)
(* the operation (err names it).                                           *)
(***************************************************************************)
EXTENDS Integers, Sequences, FiniteSets, TLC

VARIABLES self, parameters, call

vars == <<self, parameters, call>>

(***************************************************************************)
(* Bounds                                                                  *)
(***************************************************************************)
\* number of batch rows of every embedding batch
BatchSize == 2

(***************************************************************************)
(* Floating point arithmetic (fixed point, unit 1e-7)                      *)
(***************************************************************************)
Scale == 10^7

PosInf == 2 * 10^9

NegInf == 0 - PosInf

NaN == PosInf + 1

IsFinite(a) == a > NegInf /\ a < PosInf

Abs(a) == IF a < 0 THEN 0 - a ELSE a

Sign(a) == IF a < 0 THEN 0 - 1 ELSE IF a > 0 THEN 1 ELSE 0

\* floor(x * y / 10^n) for 0 <= x, y < 10^n, one decimal digit of y at a time
RECURSIVE MulLow(_, _, _, _)
MulLow(x, y, t, n) ==
  IF n = 0 THEN t
  ELSE MulLow(x, y \div 10, (x * (y % 10) + t) \div 10, n - 1)

\* floor(a * b / Scale) for a, b >= 0 without leaving 32 bits
MulFix(a, b) ==
  LET aq == a \div Scale
      ar == a % Scale
      bq == b \div Scale
      br == b % Scale
  IN  a * bq + aq * br + MulLow(ar, br, 0, 7)

\* the next n decimal digits of r / b appended to q, for 0 <= r < b
RECURSIVE DivLow(_, _, _, _)
DivLow(q, r, b, n) ==
  IF n = 0 THEN q
  ELSE LET r2 == 2 * r
           r5 == 5 * (r2 % b)
       IN  DivLow(10 * q + 5 * (r2 \div b) + (r5 \div b), r5 % b, b, n - 1)

\* floor(a * Scale / b) for a >= 0, b > 0 without leaving 32 bits
DivFix(a, b) == DivLow(a \div b, a % b, b, 7)

Fneg(a) == IF a = NaN THEN NaN ELSE 0 - a

Fadd(a, b) ==
  IF a = NaN \/ b = NaN THEN NaN
  ELSE IF ~IsFinite(a) THEN (IF ~IsFinite(b) /\ a # b THEN NaN ELSE a)
  ELSE IF ~IsFinite(b) THEN b
  ELSE a + b

Fsub(a, b) == Fadd(a, Fneg(b))

Fmul(a, b) ==
  IF a = NaN \/ b = NaN THEN NaN
  ELSE IF ~IsFinite(a) \/ ~IsFinite(b)
       THEN (IF a = 0 \/ b = 0 THEN NaN ELSE Sign(a) * Sign(b) * PosInf)
  ELSE Sign(a) * Sign(b) * MulFix(Abs(a), Abs(b))

Fdiv(a, b) ==
  IF a = NaN \/ b = NaN THEN NaN
  ELSE IF ~IsFinite(a) THEN (IF ~IsFinite(b) THEN NaN
                             ELSE IF b < 0 THEN Fneg(a) ELSE a)
  ELSE IF ~IsFinite(b) THEN 0
  ELSE IF b = 0 THEN (IF a = 0 THEN NaN ELSE Sign(a) * PosInf)
  ELSE Sign(a) * Sign(b) * DivFix(Abs(a), Abs(b))

Fmin(a, b) == IF a = NaN \/ b = NaN THEN NaN ELSE IF a <= b THEN a ELSE b

Fmax(a, b) == IF a = NaN \/ b = NaN THEN NaN ELSE IF a >= b THEN a ELSE b

Fge(a, b) == a # NaN /\ b # NaN /\ a >= b

\* value of a tabulated function at the greatest tabulated argument <= x
\* (at the first argument for an x below all of them)
RECURSIVE LookupFrom(_, _, _)
LookupFrom(table, x, k) ==
  IF k = Len(table) \/ table[k + 1][1] > x THEN table[k][2]
  ELSE LookupFrom(table, x, k + 1)

Lookup(table, x) == LookupFrom(table, x, 1)

SigmoidTable ==
  <<
    <<-200000000, 0>>, <<-140000000, 8>>, <<-30000000, 474259>>, <<0, 5000000>>,
    <<30000000, 9525741>>, <<200000000, 10000000>>
  >>

LogTable ==
  <<
    <<1, -161180957>>, <<8, -140386541>>, <<10, -138155106>>, <<474259, -30485868>>,
    <<2500000, -13862944>>, <<4999998, -6931476>>, <<5000000, -6931472>>,
    <<5000002, -6931468>>, <<7500000, -2876821>>, <<9525741, -485874>>,
    <<9999990, -10>>, <<9999992, -8>>, <<10000000, 0>>
  >>

Log1pTable ==
  <<
    <<-9999990, -138155106>>, <<-7500000, -13862944>>, <<-5000002, -6931476>>,
    <<-5000000, -6931472>>, <<-4999998, -6931468>>, <<-2500000, -2876821>>,
    <<-10, -10>>, <<-2, -2>>, <<0, 0>>, <<2500000, 2231436>>, <<4999998, 4054650>>,
    <<5000000, 4054651>>, <<7500000, 5596158>>
  >>

SoftplusTable ==
  <<
    <<-200000000, 0>>, <<-138155106, 10>>, <<0, 6931472>>, <<10000000, 13132617>>,
    <<138155106, 138155116>>, <<200000000, 200000000>>
  >>

LgammaTable ==
  <<
    <<10000000, 0>>, <<10000010, -6>>, <<16931472, -972182>>,
    <<20000000, 0>>, <<20000010, 4>>, <<20000020, 8>>, <<23132617, 1621946>>,
    <<26931472, 4293709>>, <<26931482, 4293717>>, <<33132617, 10008531>>,
    <<33132627, 10008542>>, <<33862944, 10777011>>, <<40064089, 17998156>>,
    <<46265234, 26314316>>, <<148155116, 246990134>>, <<158155116, 273946882>>,
    <<158155126, 273946909>>, <<165086588, 293017656>>, <<171287733, 310333788>>,
    <<210000000, 423356165>>, <<220000000, 453801389>>, <<220000010, 453801420>>,
    <<226931472, 475178669>>, <<233132617, 494487226>>, <<296310232, 700105768>>,
    <<358155116, 914781123>>, <<420000000, 1140342118>>
  >>

DigammaTable ==
  <<
    <<10000000, -5772157>>, <<10000010, -5772140>>,
    <<16931472, 2030978>>, <<20000000, 4227843>>, <<20000010, 4227850>>,
    <<20000020, 4227856>>, <<23132617, 6072096>>, <<26931472, 7937139>>,
    <<26931482, 7937143>>, <<33132617, 10394997>>, <<33132627, 10395000>>,
    <<33862944, 10648759>>, <<40064089, 12579350>>, <<46265234, 14198578>>,
    <<148155116, 26615468>>, <<158155116, 27290436>>, <<158155126, 27290437>>,
    <<165086588, 27732922>>, <<171287733, 28112851>>, <<210000000, 30205240>>,
    <<220000000, 30681430>>, <<220000010, 30681431>>, <<226931472, 30998681>>,
    <<233132617, 31274221>>, <<296310232, 33718528>>, <<358155116, 35643557>>,
    <<420000000, 37257176>>
  >>

\* tf.sigmoid
Sigmoid(a) ==
  IF a = NaN THEN NaN ELSE IF a = PosInf THEN Scale ELSE IF a = NegInf THEN 0
  ELSE Lookup(SigmoidTable, a)

\* tf.log
Log(a) ==
  IF a = NaN \/ a < 0 THEN NaN ELSE IF a = 0 THEN NegInf
  ELSE IF a = PosInf THEN PosInf ELSE Lookup(LogTable, a)

\* tf.log1p
Log1p(a) ==
  IF a = NaN \/ a < 0 - Scale THEN NaN ELSE IF a = 0 - Scale THEN NegInf
  ELSE IF a = PosInf THEN PosInf ELSE Lookup(Log1pTable, a)

\* tf.math.softplus
Softplus(a) ==
  IF a = NaN THEN NaN ELSE IF a = PosInf THEN PosInf ELSE IF a = NegInf THEN 0
  ELSE Lookup(SoftplusTable, a)

\* tf.lgamma, for arguments >= 1
Lgamma(a) == IF ~IsFinite(a) THEN a ELSE Lookup(LgammaTable, a)

\* tf.digamma, for arguments >= 1
Digamma(a) == IF ~IsFinite(a) THEN a ELSE Lookup(DigammaTable, a)

\* tf.math.xlogy: 0 where x = 0, else x * log(y)
XLogY(x, y) == IF x = 0 THEN 0 ELSE Fmul(x, Log(y))

(***************************************************************************)
(* Tensors                                                                 *)
(***************************************************************************)
RECURSIVE Indices(_)
Indices(shape) ==
  IF shape = <<>> THEN {<<>>}
  ELSE {<<i>> \o rest : i \in 1..Head(shape), rest \in Indices(Tail(shape))}

RECURSIVE Product(_)
Product(shape) == IF shape = <<>> THEN 1 ELSE Head(shape) * Product(Tail(shape))

\* row-major position (from 0) of index tuple idx in a tensor of this shape
RECURSIVE LinearIndex(_, _)
LinearIndex(idx, shape) ==
  IF shape = <<>> THEN 0
  ELSE (Head(idx) - 1) * Product(Tail(shape)) + LinearIndex(Tail(idx), Tail(shape))

\* the index tuple at row-major position n (from 0) of a tensor of this shape
RECURSIVE IndexAt(_, _)
IndexAt(n, shape) ==
  IF shape = <<>> THEN <<>>
  ELSE <<(n \div Product(Tail(shape))) + 1>>
         \o IndexAt(n % Product(Tail(shape)), Tail(shape))

\* f itself; the comparison makes TLC tabulate f once instead of evaluating
\* its expression again at every application
Tabulated(f) == IF f = f THEN f ELSE f

Tensor(shape, f) == [ok |-> TRUE, err |-> "", shape |-> shape, val |-> Tabulated(f)]

\* an exception raised instead of a result
Raise(e) == [ok |-> FALSE, err |-> e, shape |-> <<>>, val |-> <<>>]

\* tf.constant of a scalar
Constant(c) == Tensor(<<>>, [i \in Indices(<<>>) |-> c])

\* shape s right-aligned to rank n, missing leading dimensions being 1
PadShape(s, n) ==
  [k \in 1..n |-> IF k <= n - Len(s) THEN 1 ELSE s[k - (n - Len(s))]]

MaxRank(s1, s2) == IF Len(s1) >= Len(s2) THEN Len(s1) ELSE Len(s2)

\* whether two shapes broadcast against each other
Compatible(s1, s2) ==
  LET n == MaxRank(s1, s2)
      p1 == PadShape(s1, n)
      p2 == PadShape(s2, n)
  IN  \A k \in 1..n : p1[k] = p2[k] \/ p1[k] = 1 \/ p2[k] = 1

BroadcastShape(s1, s2) ==
  LET n == MaxRank(s1, s2)
      p1 == PadShape(s1, n)
      p2 == PadShape(s2, n)
  IN  [k \in 1..n |-> IF p1[k] = 1 THEN p2[k] ELSE p1[k]]

\* the index into a tensor of this shape that the broadcast index idx reads
Project(idx, shape) ==
  [k \in 1..Len(shape) |->
     IF shape[k] = 1 THEN 1 ELSE idx[k + (Len(idx) - Len(shape))]]

\* a unary elementwise operation
Map1(Op(_), a) ==
  IF ~a.ok THEN a
  ELSE Tensor(a.shape, [i \in Indices(a.shape) |-> Op(a.val[i])])

\* a binary elementwise operation with broadcasting (tf arithmetic operators,
\* tf.maximum, tf.minimum, tf.greater_equal, tf.math.xlogy)
Map2(Op(_, _), a, b) ==
  IF ~a.ok THEN a
  ELSE IF ~b.ok THEN b
  ELSE IF ~Compatible(a.shape, b.shape) THEN Raise("InvalidArgumentError")
  ELSE LET shape == BroadcastShape(a.shape, b.shape)
       IN  Tensor(shape, [i \in Indices(shape) |->
                            Op(a.val[Project(i, a.shape)], b.val[Project(i, b.shape)])])

\* tf.where(condition, x, y) with x and y given: x and y have one shape; the
\* condition is a scalar, or has that shape, or is a vector as long as the
\* first dimension of x, selecting whole rows
tf_where(condition, x, y) ==
  IF ~condition.ok THEN condition
  ELSE IF ~x.ok THEN x
  ELSE IF ~y.ok THEN y
  ELSE IF x.shape # y.shape THEN Raise("InvalidArgumentError")
  ELSE IF condition.shape = <<>>
       THEN Tensor(x.shape, [i \in Indices(x.shape) |->
                               IF condition.val[<<>>] THEN x.val[i] ELSE y.val[i]])
  ELSE IF condition.shape = x.shape
       THEN Tensor(x.shape, [i \in Indices(x.shape) |->
                               IF condition.val[i] THEN x.val[i] ELSE y.val[i]])
  ELSE IF Len(condition.shape) = 1 /\ Len(x.shape) >= 1
          /\ condition.shape[1] = x.shape[1]
       THEN Tensor(x.shape, [i \in Indices(x.shape) |->
                               IF condition.val[<<i[1]>>] THEN x.val[i] ELSE y.val[i]])
  ELSE Raise("InvalidArgumentError")

\* tf.reshape(tensor, shape) for shape = (-1,) + tail
tf_reshape(tensor, tail) ==
  IF ~tensor.ok THEN tensor
  ELSE IF Product(tensor.shape) % Product(tail) # 0 THEN Raise("InvalidArgumentError")
  ELSE LET shape == <<Product(tensor.shape) \div Product(tail)>> \o tail
       IN  Tensor(shape, [i \in Indices(shape) |->
                            tensor.val[IndexAt(LinearIndex(i, shape), tensor.shape)]])

\* tf.expand_dims(input, axis=-1)
tf_expand_dims(input) ==
  IF ~input.ok THEN input
  ELSE LET shape == input.shape \o <<1>>
       IN  Tensor(shape, [i \in Indices(shape) |->
                            input.val[SubSeq(i, 1, Len(i) - 1)]])

\* tf.stack(values=(first, second), axis=-1)
tf_stack(first, second) ==
  IF ~first.ok THEN first
  ELSE IF ~second.ok THEN second
  ELSE IF first.shape # second.shape THEN Raise("InvalidArgumentError")
  ELSE LET shape == first.shape \o <<2>>
       IN  Tensor(shape, [i \in Indices(shape) |->
                            IF i[Len(i)] = 1 THEN first.val[SubSeq(i, 1, Len(i) - 1)]
                            ELSE second.val[SubSeq(i, 1, Len(i) - 1)]])

\* tf.clip_by_value(t, clip_value_min, clip_value_max)
tf_clip_by_value(t, clip_value_min, clip_value_max) ==
  Map2(Fmin, Map2(Fmax, t, clip_value_min), clip_value_max)

(***************************************************************************)
(* Collaborators: constants of util, the linear layers, the observer and   *)
(* the random source                                                       *)
(***************************************************************************)
\* util.epsilon, 1e-6
epsilon == Scale \div 10^6

\* util.product(xs, empty)
util_product(xs, empty) == IF xs = <<>> THEN empty ELSE Product(xs)

Embeddings == {"e1", "e2", "e3"}

\* the embedding batches x of BatchSize rows
Batches == [1..BatchSize -> Embeddings]

\* the outputs of the three linear layers for each embedding, one per unit
LogitWeights ==
  [e1 |-> <<0, -20 * Scale>>, e2 |-> <<20 * Scale, 0>>,
   e3 |-> <<-14 * Scale, 3 * Scale>>]

AlphaWeights ==
  [e1 |-> <<0, Scale>>, e2 |-> <<20 * Scale, -20 * Scale>>, e3 |-> <<-20 * Scale, 0>>]

BetaWeights ==
  [e1 |-> <<0, 0>>, e2 |-> <<20 * Scale, Scale>>, e3 |-> <<Scale, -20 * Scale>>]

\* Linear.apply(x) of a layer of this size: [batch, size], and [batch] for size 0
Linear_apply(weights, size, x) ==
  IF size = 0
  THEN Tensor(<<BatchSize>>, [i \in Indices(<<BatchSize>>) |-> weights[x[i[1]]][1]])
  ELSE Tensor(<<BatchSize, size>>,
              [i \in Indices(<<BatchSize, size>>) |-> weights[x[i[1]]][i[2]]])

\* Module.add_summary(label, name, tensor, pass_tensors): hands pass_tensors on
add_summary(pass_tensors) == pass_tensors

\* the values tf.random.uniform draws
UniformDraws == <<0, 5, 5 * 10^6, Scale - 1>>

\* the pairs <<alpha_sample, beta_sample>> tf.random_gamma draws
GammaDraws ==
  <<<<0, 0>>, <<0, 5>>, <<15 * 10^6, 5 * 10^6>>, <<3, 4>>, <<0, 10^7>>>>

\* where in the draws the random source starts
Seeds == 0..4

\* a tensor of this shape whose entries run through the draws from seed on
Drawn(draws, seed, shape) ==
  Tensor(shape, [i \in Indices(shape) |->
                   draws[((seed + LinearIndex(i, shape)) % Len(draws)) + 1]])

tf_random_uniform(seed, shape) == Drawn(UniformDraws, seed, shape)

(***************************************************************************)
(* Bernoulli                                                               *)
(***************************************************************************)
BernoulliSpecs == {[type |-> "bool", shape |-> <<>>], [type |-> "bool", shape |-> <<2>>]}

Bernoulli_init(action_spec) ==
  [kind |-> "bernoulli", action_spec |-> action_spec,
   action_size |-> util_product(action_spec.shape, 0)]

\* the logits taken from the probability before it is clipped
Bernoulli_tf_parametrize_unclipped(obj, x) ==
  LET one == Constant(Scale)
      eps == Constant(epsilon)
      logit == tf_reshape(Linear_apply(LogitWeights, obj.action_size, x),
                          obj.action_spec.shape)
      states_value == logit
      sigmoid == Map1(Sigmoid, logit)
      probability == tf_clip_by_value(sigmoid, eps, Map2(Fsub, one, eps))
      true_logit == Map1(Log, sigmoid)
      false_logit == Map1(Log, Map2(Fsub, one, sigmoid))
  IN  add_summary(<<true_logit, false_logit, probability, states_value>>)

Bernoulli_tf_parametrize(obj, x) ==
  LET one == Constant(Scale)
      eps == Constant(epsilon)
      logit == tf_reshape(Linear_apply(LogitWeights, obj.action_size, x),
                          obj.action_spec.shape)
      states_value == logit
      probability == tf_clip_by_value(Map1(Sigmoid, logit), eps, Map2(Fsub, one, eps))
      true_logit == Map1(Log, probability)
      false_logit == Map1(Log, Map2(Fsub, one, probability))
  IN  add_summary(<<true_logit, false_logit, probability, states_value>>)

Fgt(a, b) == a # NaN /\ b # NaN /\ a > b

\* tf.greater in place of tf.greater_equal for the deterministic value
Bernoulli_tf_sample_greater(params, deterministic, seed) ==
  LET probability == params[3]
      half == Constant(Scale \div 2)
      definite == Map2(Fgt, probability, half)
      uniform == tf_random_uniform(seed, probability.shape)
      sampled == Map2(Fge, probability, uniform)
  IN  tf_where(deterministic, definite, sampled)

Bernoulli_tf_sample(params, deterministic, seed) ==
  LET probability == params[3]
      half == Constant(Scale \div 2)
      definite == Map2(Fge, probability, half)
      uniform == tf_random_uniform(seed, probability.shape)
      sampled == Map2(Fge, probability, uniform)
  IN  tf_where(deterministic, definite, sampled)

Bernoulli_tf_log_probability(params, action) ==
  LET true_logit == params[1]
      false_logit == params[2]
  IN  tf_where(action, true_logit, false_logit)

Bernoulli_tf_entropy(params) ==
  LET true_logit == params[1]
      false_logit == params[2]
      probability == params[3]
      one == Constant(Scale)
  IN  Map2(Fsub, Map2(Fmul, Map1(Fneg, probability), true_logit),
                 Map2(Fmul, Map2(Fsub, one, probability), false_logit))

\* the false ratio taken against true_logit2
Bernoulli_tf_kl_divergence_mixed(parameters1, parameters2) ==
  LET true_logit1 == parameters1[1]
      false_logit1 == parameters1[2]
      probability1 == parameters1[3]
      true_logit2 == parameters2[1]
      true_log_prob_ratio == Map2(Fsub, true_logit1, true_logit2)
      false_log_prob_ratio == Map2(Fsub, false_logit1, true_logit2)
      one == Constant(Scale)
  IN  Map2(Fadd, Map2(Fmul, probability1, true_log_prob_ratio),
                 Map2(Fmul, Map2(Fsub, one, probability1), false_log_prob_ratio))

Bernoulli_tf_kl_divergence(parameters1, parameters2) ==
  LET true_logit1 == parameters1[1]
      false_logit1 == parameters1[2]
      probability1 == parameters1[3]
      true_logit2 == parameters2[1]
      false_logit2 == parameters2[2]
      true_log_prob_ratio == Map2(Fsub, true_logit1, true_logit2)
      false_log_prob_ratio == Map2(Fsub, false_logit1, false_logit2)
      one == Constant(Scale)
  IN  Map2(Fadd, Map2(Fmul, probability1, true_log_prob_ratio),
                 Map2(Fmul, Map2(Fsub, one, probability1), false_log_prob_ratio))

\* action=None
None == [ok |-> FALSE, err |-> "None", shape |-> <<>>, val |-> <<>>]

\* the two outcomes stacked as (true_logit, false_logit)
Bernoulli_tf_action_value_swapped(params, action) ==
  LET true_logit == params[1]
      false_logit == params[2]
      states_value == params[4]
  IN  IF action = None
      THEN Map2(Fadd, tf_expand_dims(states_value), tf_stack(true_logit, false_logit))
      ELSE Map2(Fadd, states_value, tf_where(action, true_logit, false_logit))

Bernoulli_tf_action_value(params, action) ==
  LET true_logit == params[1]
      false_logit == params[2]
      states_value == params[4]
  IN  IF action = None
      THEN Map2(Fadd, tf_expand_dims(states_value), tf_stack(false_logit, true_logit))
      ELSE Map2(Fadd, states_value, tf_where(action, true_logit, false_logit))

Bernoulli_tf_states_value(params) == params[4]

(***************************************************************************)
(* Beta                                                                    *)
(***************************************************************************)
BetaSpecs ==
  {[type |-> "float", shape |-> <<>>, min_value |-> 0 - Scale, max_value |-> Scale],
   [type |-> "float", shape |-> <<2>>, min_value |-> 0, max_value |-> 2 * Scale],
   [type |-> "float", shape |-> <<>>, min_value |-> Scale, max_value |-> Scale],
   [type |-> "float", shape |-> <<>>]}

Beta_init(action_spec) ==
  [kind |-> "beta", action_spec |-> action_spec,
   action_size |-> util_product(action_spec.shape, 0)]

\* tf.constant(value=self.action_spec[key]): a KeyError for a missing key
action_spec_constant(obj, key) ==
  IF key \in DOMAIN obj.action_spec THEN Constant(obj.action_spec[key])
  ELSE Raise("KeyError")

tf_random_gamma(seed, shape) == Drawn(GammaDraws, seed, shape)

\* the raw values not clipped before softplus
Beta_tf_parametrize_unclipped(obj, x) ==
  LET one == Constant(Scale)
      eps == Constant(epsilon)
      shape == obj.action_spec.shape
      alpha0 == Linear_apply(AlphaWeights, obj.action_size, x)
      alpha == tf_reshape(Map2(Fadd, Map1(Softplus, alpha0), one), shape)
      beta0 == Linear_apply(BetaWeights, obj.action_size, x)
      beta == tf_reshape(Map2(Fadd, Map1(Softplus, beta0), one), shape)
      alpha_beta == Map2(Fmax, Map2(Fadd, alpha, beta), eps)
      log_norm == Map2(Fsub, Map2(Fadd, Map1(Lgamma, alpha), Map1(Lgamma, beta)),
                             Map1(Lgamma, alpha_beta))
  IN  <<alpha, beta, alpha_beta, log_norm>>

Beta_tf_parametrize(obj, x) ==
  LET one == Constant(Scale)
      eps == Constant(epsilon)
      log_epsilon == Constant(Log(epsilon))
      shape == obj.action_spec.shape
      alpha0 == Linear_apply(AlphaWeights, obj.action_size, x)
      alpha1 == tf_clip_by_value(alpha0, log_epsilon, Map1(Fneg, log_epsilon))
      alpha == tf_reshape(Map2(Fadd, Map1(Softplus, alpha1), one), shape)
      beta0 == Linear_apply(BetaWeights, obj.action_size, x)
      beta1 == tf_clip_by_value(beta0, log_epsilon, Map1(Fneg, log_epsilon))
      beta == tf_reshape(Map2(Fadd, Map1(Softplus, beta1), one), shape)
      alpha_beta == Map2(Fmax, Map2(Fadd, alpha, beta), eps)
      log_norm == Map2(Fsub, Map2(Fadd, Map1(Lgamma, alpha), Map1(Lgamma, beta)),
                             Map1(Lgamma, alpha_beta))
      first == add_summary(<<alpha, alpha_beta, log_norm>>)
      second == add_summary(<<beta, first[2], first[3]>>)
  IN  <<first[1], second[1], second[2], second[3]>>

First(pair) == pair[1]

Second(pair) == pair[2]

\* the two branches of tf.where exchanged
Beta_tf_sample_exchanged(obj, params, deterministic, seed) ==
  LET alpha == params[1]
      beta == params[2]
      alpha_beta == params[3]
      definite == Map2(Fdiv, beta, alpha_beta)
      alpha_sample == Map1(First, tf_random_gamma(seed, alpha.shape))
      beta_sample == Map1(Second, tf_random_gamma(seed, beta.shape))
      eps == Constant(epsilon)
      sampled0 == Map2(Fdiv, beta_sample,
                       Map2(Fmax, Map2(Fadd, alpha_sample, beta_sample), eps))
      sampled == tf_where(deterministic, sampled0, definite)
      min_value == action_spec_constant(obj, "min_value")
      max_value == action_spec_constant(obj, "max_value")
  IN  IF ~sampled.ok THEN sampled
      ELSE Map2(Fadd, min_value, Map2(Fmul, Map2(Fsub, max_value, min_value), sampled))

\* the denominator not floored at epsilon
Beta_tf_sample_unfloored(obj, params, deterministic, seed) ==
  LET alpha == params[1]
      beta == params[2]
      alpha_beta == params[3]
      definite == Map2(Fdiv, beta, alpha_beta)
      alpha_sample == Map1(First, tf_random_gamma(seed, alpha.shape))
      beta_sample == Map1(Second, tf_random_gamma(seed, beta.shape))
      sampled0 == Map2(Fdiv, beta_sample, Map2(Fadd, alpha_sample, beta_sample))
      sampled == tf_where(deterministic, definite, sampled0)
      min_value == action_spec_constant(obj, "min_value")
      max_value == action_spec_constant(obj, "max_value")
  IN  IF ~sampled.ok THEN sampled
      ELSE Map2(Fadd, min_value, Map2(Fmul, Map2(Fsub, max_value, min_value), sampled))

Beta_tf_sample(obj, params, deterministic, seed) ==
  LET alpha == params[1]
      beta == params[2]
      alpha_beta == params[3]
      definite == Map2(Fdiv, beta, alpha_beta)
      alpha_sample == Map1(First, tf_random_gamma(seed, alpha.shape))
      beta_sample == Map1(Second, tf_random_gamma(seed, beta.shape))
      eps == Constant(epsilon)
      sampled0 == Map2(Fdiv, beta_sample,
                       Map2(Fmax, Map2(Fadd, alpha_sample, beta_sample), eps))
      sampled == tf_where(deterministic, definite, sampled0)
      min_value == action_spec_constant(obj, "min_value")
      max_value == action_spec_constant(obj, "max_value")
  IN  IF ~sampled.ok THEN sampled
      ELSE Map2(Fadd, min_value, Map2(Fmul, Map2(Fsub, max_value, min_value), sampled))

\* the rescaled action clipped on both sides before both terms
Beta_tf_log_probability_symmetric(obj, params, action) ==
  LET alpha == params[1]
      beta == params[2]
      log_norm == params[4]
      min_value == action_spec_constant(obj, "min_value")
      max_value == action_spec_constant(obj, "max_value")
      action0 == Map2(Fdiv, Map2(Fsub, action, min_value), Map2(Fsub, max_value, min_value))
      one == Constant(Scale)
      eps == Constant(epsilon)
      action1 == tf_clip_by_value(action0, eps, Map2(Fsub, one, eps))
  IN  IF ~min_value.ok THEN min_value
      ELSE IF ~max_value.ok THEN max_value
      ELSE Map2(Fsub,
                Map2(Fadd, Map2(XLogY, Map2(Fsub, beta, one), action1),
                           Map2(Fmul, Map2(Fsub, alpha, one),
                                      Map1(Log1p, Map1(Fneg, action1)))),
                log_norm)

Beta_tf_log_probability(obj, params, action) ==
  LET alpha == params[1]
      beta == params[2]
      log_norm == params[4]
      min_value == action_spec_constant(obj, "min_value")
      max_value == action_spec_constant(obj, "max_value")
      action0 == Map2(Fdiv, Map2(Fsub, action, min_value), Map2(Fsub, max_value, min_value))
      one == Constant(Scale)
      eps == Constant(epsilon)
      action1 == Map2(Fmin, action0, Map2(Fsub, one, eps))
  IN  IF ~min_value.ok THEN min_value
      ELSE IF ~max_value.ok THEN max_value
      ELSE Map2(Fsub,
                Map2(Fadd, Map2(XLogY, Map2(Fsub, beta, one), Map2(Fmax, action1, eps)),
                           Map2(Fmul, Map2(Fsub, alpha, one),
                                      Map1(Log1p, Map1(Fneg, action1)))),
                log_norm)

Beta_tf_entropy(params) ==
  LET alpha == params[1]
      beta == params[2]
      alpha_beta == params[3]
      log_norm == params[4]
      one == Constant(Scale)
      digamma_alpha == Map1(Digamma, alpha)
      digamma_beta == Map1(Digamma, beta)
      digamma_alpha_beta == Map1(Digamma, alpha_beta)
  IN  Map2(Fadd,
           Map2(Fsub, Map2(Fsub, log_norm, Map2(Fmul, Map2(Fsub, beta, one), digamma_beta)),
                      Map2(Fmul, Map2(Fsub, alpha, one), digamma_alpha)),
           Map2(Fmul, Map2(Fsub, Map2(Fsub, alpha_beta, one), one), digamma_alpha_beta))

Beta_tf_kl_divergence(parameters1, parameters2) ==
  LET alpha1 == parameters1[1]
      beta1 == parameters1[2]
      alpha_beta1 == parameters1[3]
      log_norm1 == parameters1[4]
      alpha2 == parameters2[1]
      beta2 == parameters2[2]
      alpha_beta2 == parameters2[3]
      log_norm2 == parameters2[4]
      digamma_alpha1 == Map1(Digamma, alpha1)
      digamma_beta1 == Map1(Digamma, beta1)
      digamma_alpha_beta1 == Map1(Digamma, alpha_beta1)
  IN  Map2(Fadd,
           Map2(Fsub, Map2(Fsub, Map2(Fsub, log_norm2, log_norm1),
                                 Map2(Fmul, digamma_beta1, Map2(Fsub, beta2, beta1))),
                      Map2(Fmul, digamma_alpha1, Map2(Fsub, alpha2, alpha1))),
           Map2(Fmul, digamma_alpha_beta1, Map2(Fsub, alpha_beta2, alpha_beta1)))

(***************************************************************************)
(* The distribution object and the calls made on it                        *)
(***************************************************************************)
\* the actions a caller passes: entries of BoolActions for Bernoulli, of
\* FloatActions for Beta
BoolActions == <<TRUE, FALSE, FALSE>>

FloatActions ==
  <<0 - 15 * 10^6, 2 * Scale, 0 - Scale, 0, Scale, Scale - 3, 2 * Scale - 6,
    4 - Scale, 4>>

\* the shape of every tensor of a parameter tuple
ParameterShape(obj) == <<BatchSize>> \o obj.action_spec.shape

\* the shapes of the action tensors a caller passes: the parameters' shape and
\* four others
ActionShapes(obj) ==
  {ParameterShape(obj), <<BatchSize>>, <<BatchSize, 1>>, <<2>>, <<>>}

ActionInputs(obj) ==
  LET draws == IF obj.kind = "bernoulli" THEN BoolActions ELSE FloatActions
  IN  {Drawn(draws, seed, shape) : seed \in 0..(Len(draws) - 1), shape \in ActionShapes(obj)}

\* the deterministic flags a caller passes: one for all, or one per batch row
DeterministicInputs ==
  UNION {{Tensor(shape, f) : f \in [Indices(shape) -> BOOLEAN]} :
           shape \in {<<>>, <<BatchSize>>}}

NoCall ==
  [op |-> "none", x |-> <<>>, deterministic |-> None, seed |-> 0, action |-> None,
   parameters2 |-> <<>>, out |-> None]

Init ==
  /\ self \in {Bernoulli_init(a) : a \in BernoulliSpecs} \cup {Beta_init(a) : a \in BetaSpecs}
  /\ parameters = <<>>
  /\ call = NoCall

tf_parametrize(obj, x) ==
  IF obj.kind = "bernoulli" THEN Bernoulli_tf_parametrize(obj, x)
  ELSE Beta_tf_parametrize(obj, x)

parametrize ==
  \E x \in Batches :
    /\ call = NoCall
    /\ parameters' = tf_parametrize(self, x)
    /\ call' = [NoCall EXCEPT !.op = "parametrize", !.x = x]
    /\ UNCHANGED self

tf_sample(obj, params, deterministic, seed) ==
  IF obj.kind = "bernoulli" THEN Bernoulli_tf_sample(params, deterministic, seed)
  ELSE Beta_tf_sample(obj, params, deterministic, seed)

sample ==
  /\ call = NoCall
  /\ parameters # <<>>
  /\ \E deterministic \in DeterministicInputs, seed \in Seeds :
       call' = [NoCall EXCEPT !.op = "sample", !.deterministic = deterministic,
                              !.seed = seed,
                              !.out = tf_sample(self, parameters, deterministic, seed)]
  /\ UNCHANGED <<self, parameters>>

tf_log_probability(obj, params, action) ==
  IF obj.kind = "bernoulli" THEN Bernoulli_tf_log_probability(params, action)
  ELSE Beta_tf_log_probability(obj, params, action)

log_probability ==
  /\ call = NoCall
  /\ parameters # <<>>
  /\ \E action \in ActionInputs(self) :
       call' = [NoCall EXCEPT !.op = "log_probability", !.action = action,
                              !.out = tf_log_probability(self, parameters, action)]
  /\ UNCHANGED <<self, parameters>>

tf_entropy(obj, params) ==
  IF obj.kind = "bernoulli" THEN Bernoulli_tf_entropy(params) ELSE Beta_tf_entropy(params)

entropy ==
  /\ call = NoCall
  /\ parameters # <<>>
  /\ call' = [NoCall EXCEPT !.op = "entropy", !.out = tf_entropy(self, parameters)]
  /\ UNCHANGED <<self, parameters>>

tf_kl_divergence(obj, parameters1, parameters2) ==
  IF obj.kind = "bernoulli" THEN Bernoulli_tf_kl_divergence(parameters1, parameters2)
  ELSE Beta_tf_kl_divergence(parameters1, parameters2)

\* parameters2 is the tuple of any batch x2, that of parameters included
kl_divergence ==
  /\ call = NoCall
  /\ parameters # <<>>
  /\ \E x2 \in Batches :
       LET parameters2 == tf_parametrize(self, x2)
       IN  call' = [NoCall EXCEPT !.op = "kl_divergence", !.parameters2 = parameters2,
                                  !.out = tf_kl_divergence(self, parameters, parameters2)]
  /\ UNCHANGED <<self, parameters>>

action_value ==
  /\ call = NoCall
  /\ parameters # <<>>
  /\ self.kind = "bernoulli"
  /\ \E action \in ActionInputs(self) \cup {None} :
       call' = [NoCall EXCEPT !.op = "action_value", !.action = action,
                              !.out = Bernoulli_tf_action_value(parameters, action)]
  /\ UNCHANGED <<self, parameters>>

states_value ==
  /\ call = NoCall
  /\ parameters # <<>>
  /\ self.kind = "bernoulli"
  /\ call' = [NoCall EXCEPT !.op = "states_value",
                            !.out = Bernoulli_tf_states_value(parameters)]
  /\ UNCHANGED <<self, parameters>>

\* the caller takes the result of the call; the next call can be made
return ==
  /\ call # NoCall
  /\ call' = NoCall
  /\ UNCHANGED <<self, parameters>>

Next ==
  \/ return
  \/ parametrize
  \/ sample
  \/ log_probability
  \/ entropy
  \/ kl_divergence
  \/ action_value
  \/ states_value

Spec == Init /\ [][Next]_vars

(***************************************************************************)
(* Properties                                                              *)
(***************************************************************************)
\* the deterministic flag of element i: the one flag, or the flag of its row
Flag(deterministic, i) ==
  IF deterministic.shape = <<>> THEN deterministic.val[<<>>]
  ELSE deterministic.val[<<i[1]>>]

HasBounds(obj) == {"min_value", "max_value"} \subseteq DOMAIN obj.action_spec

Sampled == call.op = "sample"

\* C1: Bernoulli.sample selects per element: an element whose deterministic
\* flag is true is (probability >= 0.5), so probability 0.5 gives true; an
\* element whose flag is false is (probability >= its own uniform draw); no
\* other element's flag enters.
C1_SampleElementwise ==
  (Sampled /\ self.kind = "bernoulli") =>
    LET probability == parameters[3]
        uniform == tf_random_uniform(call.seed, probability.shape)
    IN  /\ call.out.ok
        /\ call.out.shape = probability.shape
        /\ \A i \in Indices(probability.shape) :
             call.out.val[i] = IF Flag(call.deterministic, i)
                               THEN probability.val[i] >= Scale \div 2
                               ELSE probability.val[i] >= uniform.val[i]

\* a deterministic element of probability exactly 0.5 is true, next to a
\* sampled element that differs from its deterministic value
C1_Witness ==
  /\ Sampled /\ self.kind = "bernoulli" /\ call.out.ok
  /\ \E i, j \in Indices(call.out.shape) :
       /\ Flag(call.deterministic, i) /\ ~Flag(call.deterministic, j)
       /\ parameters[3].val[i] = Scale \div 2 /\ call.out.val[i]
       /\ call.out.val[j] # (parameters[3].val[j] >= Scale \div 2)

\* C2: deterministic sampling is idempotent for both variants: a second call
\* of sample with the same parameters and flags, whatever its random draws,
\* returns in every element whose flag is true what the first call returned.
C2_DeterministicIdempotent ==
  Sampled =>
    \A seed2 \in Seeds :
      LET again == tf_sample(self, parameters, call.deterministic, seed2)
      IN  /\ again.ok = call.out.ok
          /\ call.out.ok =>
               /\ again.shape = call.out.shape
               /\ \A i \in Indices(call.out.shape) :
                    Flag(call.deterministic, i) => again.val[i] = call.out.val[i]

\* a Beta sample with a deterministic and a sampled row, where another draw
\* changes the sampled row
C2_Witness ==
  /\ Sampled /\ self.kind = "beta" /\ call.out.ok
  /\ \E i, j \in Indices(call.out.shape) :
       /\ Flag(call.deterministic, i) /\ ~Flag(call.deterministic, j)
       /\ \E seed2 \in Seeds :
            /\ tf_random_gamma(seed2, call.out.shape).val[i]
                 # tf_random_gamma(call.seed, call.out.shape).val[i]
            /\ tf_sample(self, parameters, call.deterministic, seed2).val[j]
                 # call.out.val[j]

C4_SelfDivergenceZero ==
  (call.op = "kl_divergence" /\ call.parameters2 = parameters) =>
    /\ call.out.ok
    /\ call.out.shape = ParameterShape(self)
    /\ \A i \in Indices(call.out.shape) : call.out.val[i] = 0

\* kl_divergence(P, P) of a Beta whose digamma values are not 0
C4_Witness ==
  /\ call.op = "kl_divergence" /\ call.parameters2 = parameters /\ self.kind = "beta"
  /\ \A i \in Indices(parameters[1].shape) : Digamma(parameters[1].val[i]) # 0

Parametrized == call.op = "parametrize"

\* C5: every tuple of Bernoulli.parametrize has probability in
\* [epsilon, 1 - epsilon], true_logit = log(probability) and
\* false_logit = log(1 - probability) of that clipped probability, and
\* states_value equal to the raw logit, which the clip does not bound.
C5_BernoulliTuple ==
  (self.kind = "bernoulli" /\ parameters # <<>>) =>
    LET true_logit == parameters[1]
        false_logit == parameters[2]
        probability == parameters[3]
        baseline == parameters[4]
        shape == ParameterShape(self)
    IN  /\ \A k \in 1..4 : parameters[k].ok /\ parameters[k].shape = shape
        /\ \A i \in Indices(shape) :
             /\ probability.val[i] >= epsilon
             /\ probability.val[i] <= Scale - epsilon
             /\ true_logit.val[i] = Log(probability.val[i])
             /\ false_logit.val[i] = Log(Scale - probability.val[i])
             /\ IsFinite(true_logit.val[i]) /\ IsFinite(false_logit.val[i])
        /\ Parametrized =>
             baseline = tf_reshape(Linear_apply(LogitWeights, self.action_size, call.x),
                                       self.action_spec.shape)

\* a raw logit of 20 is the states_value of an element whose probability is
\* clipped to 1 - epsilon, next to an element clipped to epsilon
C5_Witness ==
  /\ self.kind = "bernoulli" /\ Parametrized
  /\ \E i, j \in Indices(ParameterShape(self)) :
       /\ parameters[4].val[i] = 20 * Scale
       /\ parameters[3].val[i] = Scale - epsilon
       /\ Sigmoid(parameters[4].val[i]) > Scale - epsilon
       /\ parameters[1].val[i] = Log(Scale - epsilon)
       /\ parameters[3].val[j] = epsilon
       /\ Sigmoid(parameters[4].val[j]) < epsilon

\* C6: every tuple of Beta.parametrize has alpha >= 1, beta >= 1 and
\* alpha_plus_beta >= epsilon; alpha and beta are softplus of the raw value
\* clipped into [log(epsilon), -log(epsilon)], plus 1.
C6_BetaTuple ==
  (self.kind = "beta" /\ parameters # <<>>) =>
    LET alpha == parameters[1]
        beta == parameters[2]
        alpha_beta == parameters[3]
        shape == ParameterShape(self)
        Clipped(raw) == Fmin(Fmax(raw, Log(epsilon)), 0 - Log(epsilon))
        raw_alpha == tf_reshape(Linear_apply(AlphaWeights, self.action_size, call.x),
                                self.action_spec.shape)
        raw_beta == tf_reshape(Linear_apply(BetaWeights, self.action_size, call.x),
                               self.action_spec.shape)
    IN  /\ \A k \in 1..4 : parameters[k].ok /\ parameters[k].shape = shape
        /\ \A i \in Indices(shape) :
             /\ alpha.val[i] >= Scale /\ IsFinite(alpha.val[i])
             /\ beta.val[i] >= Scale /\ IsFinite(beta.val[i])
             /\ alpha_beta.val[i] >= epsilon /\ IsFinite(alpha_beta.val[i])
        /\ Parametrized =>
             \A i \in Indices(shape) :
               /\ alpha.val[i] = Softplus(Clipped(raw_alpha.val[i])) + Scale
               /\ beta.val[i] = Softplus(Clipped(raw_beta.val[i])) + Scale

\* a raw alpha of 20 is clipped to -log(epsilon) and a raw alpha of -20 to
\* log(epsilon) before softplus
C6_Witness ==
  /\ self.kind = "beta" /\ Parametrized
  /\ \E i, j \in Indices(ParameterShape(self)) :
       LET raw_alpha == tf_reshape(Linear_apply(AlphaWeights, self.action_size, call.x),
                                   self.action_spec.shape)
       IN  /\ raw_alpha.val[i] = 20 * Scale
           /\ parameters[1].val[i] = Softplus(0 - Log(epsilon)) + Scale
           /\ parameters[1].val[i] # Softplus(20 * Scale) + Scale
           /\ raw_alpha.val[j] = 0 - 20 * Scale
           /\ parameters[1].val[j] = Scale + epsilon

\* C7: Bernoulli.action_value without an action has a trailing axis of size 2
\* holding [states_value + false_logit, states_value + true_logit]; with an
\* action it is states_value + log_probability(parameters, action), the entry
\* of the former at index 0 for a false action and at index 1 for a true one.
C7_ActionValue ==
  (call.op = "action_value"
     /\ (call.action = None \/ call.action.shape = ParameterShape(self))) =>
    LET true_logit == parameters[1]
        false_logit == parameters[2]
        baseline == parameters[4]
        shape == ParameterShape(self)
        all == Bernoulli_tf_action_value(parameters, None)
        log_prob == Bernoulli_tf_log_probability(parameters, call.action)
    IN  /\ call.out.ok
        /\ all.ok /\ all.shape = shape \o <<2>>
        /\ \A i \in Indices(shape) :
             /\ all.val[i \o <<1>>] = baseline.val[i] + false_logit.val[i]
             /\ all.val[i \o <<2>>] = baseline.val[i] + true_logit.val[i]
        /\ IF call.action = None THEN call.out = all
           ELSE /\ call.out.shape = shape
                /\ \A i \in Indices(shape) :
                     /\ call.out.val[i] = baseline.val[i] + log_prob.val[i]
                     /\ call.out.val[i] =
                          all.val[i \o <<IF call.action.val[i] THEN 2 ELSE 1>>]

\* an action with a true and a false element whose two values differ
C7_Witness ==
  /\ call.op = "action_value" /\ call.action # None /\ call.out.ok
  /\ call.action.shape = ParameterShape(self)
  /\ \E i, j \in Indices(call.out.shape) :
       /\ call.action.val[i] /\ ~call.action.val[j]
       /\ parameters[1].val[i] # parameters[2].val[i]
       /\ parameters[1].val[j] # parameters[2].val[j]

\* C8: log_probability and action_value called with an action whose shape
\* is not that of action_spec fail with an error instead of returning a
\* result computed by broadcasting.
C8_ShapeMismatchFails ==
  (call.op \in {"log_probability", "action_value"} /\ call.action # None
     /\ call.action.shape # ParameterShape(self)) => ~call.out.ok

\* C9: no call of sample or log_probability on a constructed Beta fails
\* because action_spec has no min_value or max_value: the constructor has
\* rejected such an action_spec.
C9_NoMissingBoundAtCall ==
  (self.kind = "beta" /\ call.op \in {"sample", "log_probability"}) =>
    call.out.err # "KeyError"

\* C10: Beta.log_probability of the rescaled action
\* a = (action - min_value) / (max_value - min_value) is
\* (beta-1)*log(max(min(a, 1-epsilon), epsilon))
\*   + (alpha-1)*log1p(-min(a, 1-epsilon)) - log_normalizer:
\* the cap at 1-epsilon is in both terms, the floor at epsilon in the first.
C10_LogProbability ==
  (call.op = "log_probability" /\ self.kind = "beta" /\ HasBounds(self)
     /\ call.action.shape = ParameterShape(self)) =>
    LET alpha == parameters[1]
        beta == parameters[2]
        log_norm == parameters[4]
        A(i) == Fdiv(Fsub(call.action.val[i], self.action_spec.min_value),
                     Fsub(self.action_spec.max_value, self.action_spec.min_value))
        Capped(i) == Fmin(A(i), Scale - epsilon)
    IN  /\ call.out.ok
        /\ call.out.shape = ParameterShape(self)
        /\ \A i \in Indices(call.out.shape) :
             call.out.val[i] =
               Fsub(Fadd(Fmul(Fsub(beta.val[i], Scale), Log(Fmax(Capped(i), epsilon))),
                         Fmul(Fsub(alpha.val[i], Scale), Log1p(Fneg(Capped(i))))),
                    log_norm.val[i])

\* an action below min_value, whose second term is the log1p of a positive
\* number, next to an action above max_value, capped at 1 - epsilon
C10_Witness ==
  /\ call.op = "log_probability" /\ self.kind = "beta" /\ HasBounds(self)
  /\ call.action.shape = ParameterShape(self) /\ call.out.ok
  /\ self.action_spec.min_value < self.action_spec.max_value
  /\ \E i, j \in Indices(call.out.shape) :
       /\ call.action.val[i] < self.action_spec.min_value
       /\ call.out.val[i] # NaN
       /\ Log1p(Fneg(Fdiv(Fsub(call.action.val[i], self.action_spec.min_value),
                          Fsub(self.action_spec.max_value, self.action_spec.min_value)))) > 0
       /\ call.action.val[j] > self.action_spec.max_value
       /\ IsFinite(call.out.val[j])

=============================================================================
